---- MODULE Spec2Model ----
(***************************************************************************)
(* Model of the Null / maybe / maybe_pipe convention of larc.common        *)
(* (src/larc/common.py, "Monad(ish) functions").                           *)
(*                                                                         *)
(* Python values are records [t |-> type tag, v |-> payload].  A call of   *)
(* maybe_pipe is a small state machine (entry check, one step per loop     *)
(* iteration, final return); maybe, is_null and not_null are single-step   *)
(* calls; operations on the Null object are steps of an expression chain.  *)
(***************************************************************************)
EXTENDS Integers, Sequences, FiniteSets, TLC

VARIABLES
    pc,         \* per maybe_pipe call: "idle", "check", "loop", "returned", "raised"
    arg,        \* per call: the value the caller passed
    value,      \* per call: the local variable `value`
    functions,  \* per call: the *functions tuple
    default,    \* per call: the default keyword (None when omitted)
    idx,        \* per call: position of the next function of the for loop
    calls,      \* per call: how many times each position was invoked
    outs,       \* per call: the outcome of every invocation, in order
    result,     \* per call: the returned value
    log,        \* records handed to log.error
    last,       \* the last single-step call: function or operator, operands, outcome
    chainPc,    \* expression chain on an object: "idle", "run", "raised"
    acc,        \* the object the chain currently holds
    chainOps,   \* the operations the chain has applied
    nullDict,   \* the instance __dict__ of the Null object
    _instance,  \* the class attribute _null._instance
    constructed,\* the objects returned by the calls _null() made after import
    jpc,        \* generator of the sc_juxt caller: "idle", "run", "done", "raised"
    jfuncs,     \* its funcs
    jarg,       \* its argument
    jidx,       \* position of the next function of its for loop
    sc,         \* its local flag sc
    yielded,    \* the items it has yielded
    jcalls,     \* how many times each of its functions was called
    itPc,       \* iteration over an object: "idle", "run", "stopped"
    itObj,      \* the object being iterated
    itMode,     \* "iter": for loop or map, through iter(obj); "next": next(obj)
    itIdx,      \* index the sequence iterator passes to __getitem__
    items,      \* the items the iteration has produced
    dpc,        \* dictionary pipeline: "idle", "run", "raised"
    heap,       \* the dict objects allocated so far, by reference
    dref,       \* reference of the dict the pipeline currently holds
    dorig,      \* contents of the input dict when the pipeline started
    dops,       \* the transformers applied, with their input and output
    csv,        \* the last CSV writer call: function, arguments, outcome
    wfp,        \* lines held by the file-like object handed to csv_rows_to_fp
    files       \* file system: path -> text, or NoValue when no such file

vars == <<pc, arg, value, functions, default, idx, calls, outs, result, log,
          last, chainPc, acc, chainOps, nullDict, _instance, constructed,
          jpc, jfuncs, jarg, jidx, sc, yielded, jcalls,
          itPc, itObj, itMode, itIdx, items, dpc, heap, dref, dorig, dops,
          csv, wfp, files>>

pipeVars == <<pc, arg, value, functions, default, idx, calls, outs, result, log>>
chainVars == <<chainPc, acc, chainOps, nullDict>>
classVars == <<_instance, constructed>>
juxtVars == <<jpc, jfuncs, jarg, jidx, sc, yielded, jcalls>>
iterVars == <<itPc, itObj, itMode, itIdx, items>>
dictVars == <<dpc, heap, dref, dorig, dops>>
csvVars == <<csv, wfp, files>>

----------------------------------------------------------------------------
(* Bounds *)

MaxStages == 3
MaxInt == 2
MaxChain == 3
MaxConstruct == 3
MaxConcStages == 2
MaxIter == 3
MaxDictOps == 2
MaxRows == 2

Calls == {1, 2}

----------------------------------------------------------------------------
(* Python values *)

None == [t |-> "None", v |-> 0]
Null == [t |-> "Null", v |-> 0]
PyInt(n) == [t |-> "int", v |-> n]
False == [t |-> "bool", v |-> 0]
True == [t |-> "bool", v |-> 1]
EmptyStr == [t |-> "str", v |-> 0]
EmptyList == [t |-> "list", v |-> 0]
WrappedLambda == [t |-> "function", v |-> 0]
LenMethod == [t |-> "method", v |-> 0]
NoValue == [t |-> "unset", v |-> 0]

PyBool(b) == IF b THEN True ELSE False

ExampleInts == {5, 7, 10}

Values == {None, Null, False, EmptyStr, EmptyList}
              \cup {PyInt(n) : n \in (0 .. MaxInt) \cup ExampleInts}

----------------------------------------------------------------------------
(* The Null object *)

AttrNames == {"foo", "b", "__wrapped__", "_instance", "__len__"}
SetNames == {"foo", "__wrapped__", "__len__"}
SetValues == {PyInt(1), None}
Keys == {PyInt(1), EmptyStr, None}

null_bool == False

null_len_FromDict(dict) == IF dict["__len__"] # NoValue THEN dict["__len__"] ELSE PyInt(0)

null_len(dict) == PyInt(0)

null_contains(a) == False

null_getattr_NoSelf(key) == IF key = "__wrapped__" THEN WrappedLambda ELSE None

null_getattr(key) == IF key = "__wrapped__" THEN WrappedLambda ELSE Null

null_getitem_None(key) == None

null_getitem(key) == Null

null_next == Null

null_call(a) == Null

ClassAttrs == {"_instance", "__len__"}

ClassAttr(key) == IF key = "_instance" THEN Null ELSE LenMethod

LookupPath(dict, key) ==
    IF dict[key] # NoValue THEN "instance"
    ELSE IF key \in ClassAttrs THEN "class"
    ELSE "__getattr__"

GetAttribute(dict, key) ==
    CASE LookupPath(dict, key) = "instance" -> dict[key]
      [] LookupPath(dict, key) = "class" -> ClassAttr(key)
      [] OTHER -> null_getattr(key)

SetAttribute(dict, key, val) == [dict EXCEPT ![key] = val]

null_lt(other) == False

null_gt(other) == False

null_eq_Identity(other) == PyBool(other = Null)

null_eq(other) == False

null_le_Reflexive(other) == PyBool(other = Null)

null_le(other) == False

null_ge(other) == False

CompareOps == {"<", ">", "==", "<=", ">="}

NullCompare(op, other) ==
    CASE op = "<" -> null_lt(other)
      [] op = ">" -> null_gt(other)
      [] op = "==" -> null_eq(other)
      [] op = "<=" -> null_le(other)
      [] op = ">=" -> null_ge(other)

Reflected(op) ==
    CASE op = "<" -> ">"
      [] op = ">" -> "<"
      [] op = "<=" -> ">="
      [] op = ">=" -> "<="
      [] op = "==" -> "=="

BuiltinEq(a, b) ==
    IF a.t \in {"int", "bool"} /\ b.t \in {"int", "bool"} THEN PyBool(a.v = b.v)
    ELSE PyBool(a = b)

\* Comparison with Null on one side; two built-in operands are only ever
\* compared with ==.
PyCompare(op, a, b) ==
    IF a = Null THEN NullCompare(op, b)
    ELSE IF b = Null THEN NullCompare(Reflected(op), a)
    ELSE BuiltinEq(a, b)

PyEq(a, b) == PyCompare("==", a, b)

ArithOps == {"+", "-", "*", "/"}

NullMethods_TrueDiv ==
    {"__add__", "__radd__", "__sub__", "__rsub__", "__mul__", "__rmul__",
     "__truediv__", "__rtruediv__"}

NullMethods ==
    {"__add__", "__radd__", "__sub__", "__rsub__", "__mul__", "__rmul__",
     "__div__", "__rdiv__"}

Forward(op) ==
    CASE op = "+" -> "__add__"
      [] op = "-" -> "__sub__"
      [] op = "*" -> "__mul__"
      [] op = "/" -> "__truediv__"

Reverse(op) ==
    CASE op = "+" -> "__radd__"
      [] op = "-" -> "__rsub__"
      [] op = "*" -> "__rmul__"
      [] op = "/" -> "__rtruediv__"

null_arith(method, other) == Null

NullArith(op, a, b) ==
    IF a = Null /\ Forward(op) \in NullMethods THEN [exc |-> "", val |-> null_arith(Forward(op), b)]
    ELSE IF b = Null /\ a # Null /\ Reverse(op) \in NullMethods
         THEN [exc |-> "", val |-> null_arith(Reverse(op), a)]
    ELSE [exc |-> "TypeError", val |-> NoValue]

----------------------------------------------------------------------------
(* is_null, not_null, maybe *)

is_null_NoneOnly(v) == v = None

is_null_Falsy(v) == v \in {None, Null, False, EmptyStr, PyInt(0)}

is_null(v) == v = None \/ v = Null

not_null(v) == ~ is_null(v)

maybe_OrDefault(val, dflt) ==
    IF val \in {None, Null, False, EmptyStr, PyInt(0)}
    THEN IF dflt # None THEN dflt ELSE Null
    ELSE val

maybe(val, dflt) ==
    IF is_null(val)
    THEN IF dflt # None THEN dflt ELSE Null
    ELSE val

----------------------------------------------------------------------------
(* Pipeline stages: the one-argument functions a caller passes *)

StageNames == {"inc", "dbl", "none", "null", "error", "interrupt", "sc_dbl"}

ExceptionSubclasses == {"TypeError", "ValueError"}
BaseExceptionOnly == {"KeyboardInterrupt"}

Ret(v) == [k |-> "ret", exc |-> "", val |-> v]
Raise(e) == [k |-> "raise", exc |-> e, val |-> NoValue]

\* bool(v): __bool__ for Null, the built-in rules otherwise
Truthy(v) ==
    CASE v = Null -> null_bool = True
      [] v = None -> FALSE
      [] v.t \in {"int", "bool", "float"} -> v.v # 0
      [] v.t = "str" -> v # EmptyStr
      [] v.t = "list" -> v # EmptyList
      [] OTHER -> TRUE

\* the plain stages: lambda x: x + 1, lambda x: x * 2, and so on
Plain(f, v) ==
    CASE f = "inc" ->
            IF v.t \in {"int", "bool"} THEN Ret(PyInt(v.v + 1))
            ELSE IF v = Null THEN Ret(Null)
            ELSE Raise("TypeError")
      [] f = "dbl" ->
            IF v.t \in {"int", "bool"} THEN Ret(PyInt(v.v * 2))
            ELSE IF v.t \in {"str", "list"} THEN Ret(v)
            ELSE IF v = Null THEN Ret(Null)
            ELSE Raise("TypeError")
      [] f = "none" -> Ret(None)
      [] f = "null" -> Ret(Null)
      [] f = "error" -> Raise("ValueError")
      [] f = "interrupt" -> Raise("KeyboardInterrupt")

short_circuit_PassesFalsy(function, val) ==
    LET out == Plain(function, val)
    IN  IF out.k = "raise" THEN out ELSE Ret(val)

\* an exception raised by function(val) propagates to the caller
short_circuit(function, val) ==
    LET out == Plain(function, val)
    IN  IF out.k = "raise" THEN out
        ELSE IF ~ Truthy(out.val) THEN Ret(Null)
        ELSE Ret(val)

\* "sc_dbl" is the stage short_circuit(lambda x: x * 2)
Apply(f, v) ==
    CASE f = "sc_dbl" -> short_circuit("dbl", v)
      [] OTHER -> Plain(f, v)

RECURSIVE SeqsUpTo(_, _)
SeqsUpTo(S, n) ==
    IF n = 0 THEN {<<>>}
    ELSE LET shorter == SeqsUpTo(S, n - 1)
         IN  shorter \cup {Append(s, x) : s \in {q \in shorter : Len(q) = n - 1}, x \in S}

StageLists == SeqsUpTo(StageNames, MaxStages)

----------------------------------------------------------------------------
(* maybe_pipe *)

Caught_KeyErrorOnly(e) == e = "KeyError"

Caught(e) == e \in ExceptionSubclasses

ExceptReturn_IgnoresDefault(c) == Null

ExceptReturn_CurrentValue(c) == value[c]

ExceptReturn(c) == IF default[c] = None THEN Null ELSE default[c]

NullReturn_IgnoresDefault(c) == Null

NullReturn_RawDefault(c) == default[c]

NullReturn(c) == IF default[c] = None THEN Null ELSE default[c]

StageInput_Shared(c) == value[1]

StageInput(c) == value[c]

LogError_Silent(c, i) == log

LogError(c, i) == Append(log, [call |-> c, stage |-> i])

CallMaybePipe(c, v, fs, d) ==
    /\ pc[c] = "idle"
    /\ pc' = [pc EXCEPT ![c] = "check"]
    /\ arg' = [arg EXCEPT ![c] = v]
    /\ value' = [value EXCEPT ![c] = v]
    /\ functions' = [functions EXCEPT ![c] = fs]
    /\ default' = [default EXCEPT ![c] = d]
    /\ calls' = [calls EXCEPT ![c] = [i \in 1 .. Len(fs) |-> 0]]
    /\ UNCHANGED <<idx, outs, result, log, last, chainVars>>
    /\ UNCHANGED <<classVars, juxtVars>>
    /\ UNCHANGED <<iterVars, dictVars, csvVars>>

CheckValue_NoEarlyReturn(c) ==
    /\ pc[c] = "check"
    /\ pc' = [pc EXCEPT ![c] = "loop"]
    /\ UNCHANGED <<arg, value, functions, default, idx, calls, outs, result,
                   log, last, chainVars>>
    /\ UNCHANGED <<classVars, juxtVars>>
    /\ UNCHANGED <<iterVars, dictVars, csvVars>>

CheckValue(c) ==
    /\ pc[c] = "check"
    /\ IF is_null(value[c])
       THEN /\ result' = [result EXCEPT ![c] = Null]
            /\ pc' = [pc EXCEPT ![c] = "returned"]
       ELSE /\ pc' = [pc EXCEPT ![c] = "loop"]
            /\ UNCHANGED result
    /\ UNCHANGED <<arg, value, functions, default, idx, calls, outs, log,
                   last, chainVars>>
    /\ UNCHANGED <<classVars, juxtVars>>
    /\ UNCHANGED <<iterVars, dictVars, csvVars>>

Iterate(c) ==
    /\ pc[c] = "loop"
    /\ idx[c] <= Len(functions[c])
    /\ LET i == idx[c]
           out == Apply(functions[c][i], StageInput(c))
       IN  /\ calls' = [calls EXCEPT ![c][i] = @ + 1]
           /\ outs' = [outs EXCEPT ![c] =
                          Append(@, [i |-> i, on |-> value[c], k |-> out.k,
                                     exc |-> out.exc, val |-> out.val])]
           /\ CASE out.k = "raise" /\ ~ Caught(out.exc) ->
                     /\ pc' = [pc EXCEPT ![c] = "raised"]
                     /\ UNCHANGED <<value, result, log, idx>>
                [] out.k = "raise" /\ Caught(out.exc) ->
                     /\ log' = LogError(c, i)
                     /\ result' = [result EXCEPT ![c] = ExceptReturn(c)]
                     /\ pc' = [pc EXCEPT ![c] = "returned"]
                     /\ UNCHANGED <<value, idx>>
                [] out.k = "ret" ->
                     /\ value' = [value EXCEPT ![c] = out.val]
                     /\ IF is_null(out.val)
                        THEN /\ result' = [result EXCEPT ![c] = NullReturn(c)]
                             /\ pc' = [pc EXCEPT ![c] = "returned"]
                             /\ UNCHANGED idx
                        ELSE /\ idx' = [idx EXCEPT ![c] = i + 1]
                             /\ UNCHANGED <<pc, result>>
                     /\ UNCHANGED log
    /\ UNCHANGED <<arg, functions, default, last, chainVars>>
    /\ UNCHANGED <<classVars, juxtVars>>
    /\ UNCHANGED <<iterVars, dictVars, csvVars>>

ReturnValue_ReturnsDefault(c) ==
    /\ pc[c] = "loop"
    /\ idx[c] > Len(functions[c])
    /\ result' = [result EXCEPT ![c] = IF default[c] = None THEN value[c] ELSE default[c]]
    /\ pc' = [pc EXCEPT ![c] = "returned"]
    /\ UNCHANGED <<arg, value, functions, default, idx, calls, outs, log,
                   last, chainVars>>
    /\ UNCHANGED <<classVars, juxtVars>>
    /\ UNCHANGED <<iterVars, dictVars, csvVars>>

ReturnValue(c) ==
    /\ pc[c] = "loop"
    /\ idx[c] > Len(functions[c])
    /\ result' = [result EXCEPT ![c] = value[c]]
    /\ pc' = [pc EXCEPT ![c] = "returned"]
    /\ UNCHANGED <<arg, value, functions, default, idx, calls, outs, log,
                   last, chainVars>>
    /\ UNCHANGED <<classVars, juxtVars>>
    /\ UNCHANGED <<iterVars, dictVars, csvVars>>

----------------------------------------------------------------------------
(* Single-step calls of maybe, is_null, not_null *)

CallMaybe(v, d) ==
    /\ last' = [fn |-> "maybe", val |-> v, dflt |-> d, ret |-> maybe(v, d), exc |-> ""]
    /\ UNCHANGED <<pipeVars, chainVars>>
    /\ UNCHANGED <<classVars, juxtVars>>
    /\ UNCHANGED <<iterVars, dictVars, csvVars>>

CallIsNull(v) ==
    /\ last' = [fn |-> "is_null", val |-> v, dflt |-> None, ret |-> PyBool(is_null(v)), exc |-> ""]
    /\ UNCHANGED <<pipeVars, chainVars>>
    /\ UNCHANGED <<classVars, juxtVars>>
    /\ UNCHANGED <<iterVars, dictVars, csvVars>>

CallNotNull(v) ==
    /\ last' = [fn |-> "not_null", val |-> v, dflt |-> None, ret |-> PyBool(not_null(v)), exc |-> ""]
    /\ UNCHANGED <<pipeVars, chainVars>>
    /\ UNCHANGED <<classVars, juxtVars>>
    /\ UNCHANGED <<iterVars, dictVars, csvVars>>

CallMaybeTwiceEq(v) ==
    /\ last' = [fn |-> "maybe(maybe(v)) == maybe(v)", val |-> v, dflt |-> None,
                ret |-> PyEq(maybe(maybe(v, None), None), maybe(v, None)), exc |-> ""]
    /\ UNCHANGED <<pipeVars, chainVars>>
    /\ UNCHANGED <<classVars, juxtVars>>
    /\ UNCHANGED <<iterVars, dictVars, csvVars>>

CallMaybeTwiceIs(v) ==
    /\ last' = [fn |-> "maybe(maybe(v)) is maybe(v)", val |-> v, dflt |-> None,
                ret |-> PyBool(maybe(maybe(v, None), None) = maybe(v, None)), exc |-> ""]
    /\ UNCHANGED <<pipeVars, chainVars>>
    /\ UNCHANGED <<classVars, juxtVars>>
    /\ UNCHANGED <<iterVars, dictVars, csvVars>>

\* a op b with Null as one of the operands; val and dflt hold a and b
CompareOp(op, a, b) ==
    /\ a = Null \/ b = Null
    /\ last' = [fn |-> op, val |-> a, dflt |-> b, ret |-> PyCompare(op, a, b), exc |-> ""]
    /\ UNCHANGED <<pipeVars, chainVars>>
    /\ UNCHANGED <<classVars, juxtVars>>
    /\ UNCHANGED <<iterVars, dictVars, csvVars>>

ArithOp(op, a, b) ==
    /\ a = Null \/ b = Null
    /\ last' = [fn |-> op, val |-> a, dflt |-> b, ret |-> NullArith(op, a, b).val,
                exc |-> NullArith(op, a, b).exc]
    /\ UNCHANGED <<pipeVars, chainVars>>
    /\ UNCHANGED <<classVars, juxtVars>>
    /\ UNCHANGED <<iterVars, dictVars, csvVars>>

----------------------------------------------------------------------------
(* Expression chains: maybe(v).attr, maybe(v)[key], maybe(v)(...)          *)

ChainStart(v) ==
    /\ chainPc = "idle"
    /\ chainPc' = "run"
    /\ acc' = maybe(v, None)
    /\ chainOps' = <<[op |-> "maybe", name |-> v.t, via |-> ""]>>
    /\ UNCHANGED <<nullDict, pipeVars, last>>
    /\ UNCHANGED <<classVars, juxtVars>>
    /\ UNCHANGED <<iterVars, dictVars, csvVars>>

GetAttrOp(key) ==
    /\ chainPc = "run"
    /\ Len(chainOps) <= MaxChain
    /\ acc = Null
    /\ acc' = GetAttribute(nullDict, key)
    /\ chainOps' = Append(chainOps, [op |-> "getattr", name |-> key,
                                     via |-> LookupPath(nullDict, key)])
    /\ UNCHANGED <<chainPc, nullDict, pipeVars, last>>
    /\ UNCHANGED <<classVars, juxtVars>>
    /\ UNCHANGED <<iterVars, dictVars, csvVars>>

GetItemOp(key) ==
    /\ chainPc = "run"
    /\ Len(chainOps) <= MaxChain
    /\ acc = Null
    /\ acc' = null_getitem(key)
    /\ chainOps' = Append(chainOps, [op |-> "getitem", name |-> key.t, via |-> ""])
    /\ UNCHANGED <<chainPc, nullDict, pipeVars, last>>
    /\ UNCHANGED <<classVars, juxtVars>>
    /\ UNCHANGED <<iterVars, dictVars, csvVars>>

CallOp(a) ==
    /\ chainPc = "run"
    /\ Len(chainOps) <= MaxChain
    /\ acc \in {Null, WrappedLambda}
    /\ acc' = IF acc = Null THEN null_call(a) ELSE None
    /\ chainOps' = Append(chainOps, [op |-> "call", name |-> "()", via |-> ""])
    /\ UNCHANGED <<chainPc, nullDict, pipeVars, last>>
    /\ UNCHANGED <<classVars, juxtVars>>
    /\ UNCHANGED <<iterVars, dictVars, csvVars>>

BoolOp ==
    /\ chainPc = "run"
    /\ Len(chainOps) <= MaxChain
    /\ acc = Null
    /\ acc' = null_bool
    /\ chainOps' = Append(chainOps, [op |-> "bool", name |-> "", via |-> ""])
    /\ UNCHANGED <<chainPc, nullDict, pipeVars, last>>
    /\ UNCHANGED <<classVars, juxtVars>>
    /\ UNCHANGED <<iterVars, dictVars, csvVars>>

LenOp ==
    /\ chainPc = "run"
    /\ Len(chainOps) <= MaxChain
    /\ acc = Null
    /\ acc' = null_len(nullDict)
    /\ chainOps' = Append(chainOps, [op |-> "len", name |-> "", via |-> ""])
    /\ UNCHANGED <<chainPc, nullDict, pipeVars, last>>
    /\ UNCHANGED <<classVars, juxtVars>>
    /\ UNCHANGED <<iterVars, dictVars, csvVars>>

ContainsOp(x) ==
    /\ chainPc = "run"
    /\ Len(chainOps) <= MaxChain
    /\ acc = Null
    /\ acc' = null_contains(<<x>>)
    /\ chainOps' = Append(chainOps, [op |-> "in", name |-> x.t, via |-> ""])
    /\ UNCHANGED <<chainPc, nullDict, pipeVars, last>>
    /\ UNCHANGED <<classVars, juxtVars>>
    /\ UNCHANGED <<iterVars, dictVars, csvVars>>

SetAttrOp(key, val) ==
    /\ chainPc = "run"
    /\ Len(chainOps) <= MaxChain
    /\ acc = Null
    /\ nullDict' = SetAttribute(nullDict, key, val)
    /\ chainOps' = Append(chainOps, [op |-> "setattr", name |-> key, via |-> ""])
    /\ UNCHANGED <<chainPc, acc, pipeVars, last>>
    /\ UNCHANGED <<classVars, juxtVars>>
    /\ UNCHANGED <<iterVars, dictVars, csvVars>>

----------------------------------------------------------------------------
(* The conversions int(value), float(value) *)

DigitStr(n) == [t |-> "digits", v |-> n]
PyFloat(n) == [t |-> "float", v |-> n]

ConvValues == Values \cup {DigitStr(7), PyFloat(0), PyFloat(2)}

int_of(v) ==
    CASE v.t \in {"int", "bool", "digits", "float"} -> [exc |-> "", val |-> PyInt(v.v)]
      [] v.t = "str" -> [exc |-> "ValueError", val |-> NoValue]
      [] OTHER -> [exc |-> "TypeError", val |-> NoValue]

float_of(v) ==
    CASE v.t \in {"int", "bool", "digits", "float"} -> [exc |-> "", val |-> PyFloat(v.v)]
      [] v.t = "str" -> [exc |-> "ValueError", val |-> NoValue]
      [] OTHER -> [exc |-> "TypeError", val |-> NoValue]

is_int(v) == ~ (int_of(v).exc \in {"ValueError", "TypeError"})

is_float(v) == ~ (float_of(v).exc \in {"ValueError", "TypeError"})

maybe_int(val, dflt) ==
    IF is_int(val) THEN int_of(val).val
    ELSE IF Truthy(dflt) THEN dflt ELSE Null

maybe_float(val, dflt) ==
    IF is_float(val) THEN float_of(val).val
    ELSE IF Truthy(dflt) THEN dflt ELSE Null

CallMaybeInt(v, d) ==
    /\ last' = [fn |-> "maybe_int", val |-> v, dflt |-> d, ret |-> maybe_int(v, d), exc |-> ""]
    /\ UNCHANGED <<pipeVars, chainVars, classVars, juxtVars>>
    /\ UNCHANGED <<iterVars, dictVars, csvVars>>

CallMaybeFloat(v, d) ==
    /\ last' = [fn |-> "maybe_float", val |-> v, dflt |-> d, ret |-> maybe_float(v, d), exc |-> ""]
    /\ UNCHANGED <<pipeVars, chainVars, classVars, juxtVars>>
    /\ UNCHANGED <<iterVars, dictVars, csvVars>>

----------------------------------------------------------------------------
(* sc_juxt: the generator returned by the caller that sc_juxt builds *)

CallJuxt(fs, a) ==
    /\ jpc = "idle"
    /\ jpc' = "run"
    /\ jfuncs' = fs
    /\ jarg' = a
    /\ jidx' = 1
    /\ sc' = FALSE
    /\ yielded' = <<>>
    /\ jcalls' = [i \in 1 .. Len(fs) |-> 0]
    /\ UNCHANGED <<pipeVars, last, chainVars, classVars>>
    /\ UNCHANGED <<iterVars, dictVars, csvVars>>

JuxtIterate ==
    /\ jpc = "run"
    /\ jidx <= Len(jfuncs)
    /\ LET before == IF sc THEN Append(yielded, Null) ELSE yielded
           output == Apply(jfuncs[jidx], jarg)
       IN  /\ jcalls' = [jcalls EXCEPT ![jidx] = @ + 1]
           /\ IF output.k = "raise"
              THEN /\ jpc' = "raised"
                   /\ yielded' = before
                   /\ UNCHANGED <<sc, jidx>>
              ELSE /\ IF ~ Truthy(output.val)
                      THEN /\ sc' = TRUE
                           /\ yielded' = Append(before, Null)
                      ELSE /\ yielded' = Append(before, output.val)
                           /\ UNCHANGED sc
                   /\ jidx' = jidx + 1
                   /\ UNCHANGED jpc
    /\ UNCHANGED <<jfuncs, jarg, pipeVars, last, chainVars, classVars>>
    /\ UNCHANGED <<iterVars, dictVars, csvVars>>

JuxtExhausted ==
    /\ jpc = "run"
    /\ jidx > Len(jfuncs)
    /\ jpc' = "done"
    /\ UNCHANGED <<jfuncs, jarg, jidx, sc, yielded, jcalls, pipeVars, last,
                   chainVars, classVars>>
    /\ UNCHANGED <<iterVars, dictVars, csvVars>>

----------------------------------------------------------------------------
(* Iteration: `for x in obj`, map(f, obj) and next(obj)                    *)
(*                                                                         *)
(* _null defines __getitem__ and __next__ but no __iter__, so iter(Null)   *)
(* is the sequence iterator: it calls obj[0], obj[1], ... and stops when   *)
(* the call raises IndexError.  next(Null) calls __next__ directly.        *)

Iterables == {Null, EmptyStr, EmptyList}
IterModes == {"iter", "next"}

\* obj[i] as the sequence iterator asks for it
ItemAt(obj, i) ==
    IF obj = Null THEN Ret(null_getitem(PyInt(i)))
    ELSE Raise("IndexError")

\* next(obj): only Null has __next__ among the objects iterated here
NextOf(obj) ==
    IF obj = Null THEN Ret(null_next)
    ELSE Raise("TypeError")

IterStart(obj, mode) ==
    /\ itPc = "idle"
    /\ itPc' = "run"
    /\ itObj' = obj
    /\ itMode' = mode
    /\ itIdx' = 0
    /\ items' = <<>>
    /\ UNCHANGED <<pipeVars, last, chainVars, classVars, juxtVars>>
    /\ UNCHANGED <<dictVars, csvVars>>

IterStep ==
    /\ itPc = "run"
    /\ Len(items) < MaxIter
    /\ LET out == IF itMode = "iter" THEN ItemAt(itObj, itIdx) ELSE NextOf(itObj)
       IN  IF out.k = "raise"
           THEN /\ itPc' = "stopped"
                /\ UNCHANGED <<itIdx, items>>
           ELSE /\ items' = Append(items, out.val)
                /\ itIdx' = IF itMode = "iter" THEN itIdx + 1 ELSE itIdx
                /\ UNCHANGED itPc
    /\ UNCHANGED <<itObj, itMode>>
    /\ UNCHANGED <<pipeVars, last, chainVars, classVars, juxtVars>>
    /\ UNCHANGED <<dictVars, csvVars>>

----------------------------------------------------------------------------
(* Dictionary transformers                                                 *)
(*                                                                         *)
(* Dicts are objects on a heap and are passed by reference, so that a      *)
(* write into the caller's dict is a state the model can reach.  A dict is *)
(* a function from DictKeys to a value, NoValue standing for "no such      *)
(* key".  A transformer takes the heap h and the reference d of its        *)
(* argument and gives the new heap and the reference it returns.           *)

DictKeys == {"a", "b"}
DictVals == {PyInt(1), PyInt(2)}
Dicts == [DictKeys -> DictVals \cup {NoValue}]

\* lambda d: len(d) and lambda d: d['b'] + 1
ValueFunctions == {"len", "b_plus_1"}

Has(d, key) == d[key] # NoValue

ValueOf(value_function, d) ==
    CASE value_function = "len" ->
            Ret(PyInt(Cardinality({k \in DictKeys : Has(d, k)})))
      [] value_function = "b_plus_1" ->
            IF Has(d, "b") THEN Ret(PyInt(d["b"].v + 1)) ELSE Raise("KeyError")

Returned(h, d) == [exc |-> "", heap |-> h, ref |-> d]
Propagated(h, d, e) == [exc |-> e, heap |-> h, ref |-> d]

\* toolz assoc and dissoc build a new dict and leave their argument alone
assoc(h, d, key, val) ==
    Returned(Append(h, [h[d] EXCEPT ![key] = val]), Len(h) + 1)

dissoc(h, d, key) ==
    Returned(Append(h, [h[d] EXCEPT ![key] = NoValue]), Len(h) + 1)

create_key_InPlace(key, value_function, h, d) ==
    IF ~ Has(h[d], key)
    THEN LET v == ValueOf(value_function, h[d])
         IN  IF v.k = "raise" THEN Propagated(h, d, v.exc)
             ELSE Returned([h EXCEPT ![d][key] = v.val], d)
    ELSE Returned(h, d)

create_key(key, value_function, h, d) ==
    IF ~ Has(h[d], key)
    THEN LET v == ValueOf(value_function, h[d])
         IN  IF v.k = "raise" THEN Propagated(h, d, v.exc)
             ELSE assoc(h, d, key, v.val)
    ELSE Returned(h, d)

update_key(key, value_function, h, d) ==
    LET v == ValueOf(value_function, h[d])
    IN  IF v.k = "raise" THEN Propagated(h, d, v.exc)
        ELSE assoc(h, d, key, v.val)

set_key(key, val, h, d) == assoc(h, d, key, val)

drop_key(key, h, d) == dissoc(h, d, key)

\* pipe(d0, ...): the caller's dict enters a pipeline of transformers
DictStart(d0) ==
    /\ dpc = "idle"
    /\ dpc' = "run"
    /\ heap' = <<d0>>
    /\ dref' = 1
    /\ dorig' = d0
    /\ dops' = <<>>
    /\ UNCHANGED <<pipeVars, last, chainVars, classVars, juxtVars>>
    /\ UNCHANGED <<iterVars, csvVars>>

CreateKey(key, value_function) ==
    /\ dpc = "run"
    /\ Len(dops) < MaxDictOps
    /\ LET out == create_key(key, value_function, heap, dref)
       IN  /\ heap' = out.heap
           /\ dref' = out.ref
           /\ dpc' = IF out.exc = "" THEN "run" ELSE "raised"
           /\ dops' = Append(dops, [fn |-> "create_key", key |-> key,
                                    vf |-> value_function, val |-> NoValue,
                                    in |-> dref, snap |-> heap[dref],
                                    out |-> out.ref, exc |-> out.exc])
    /\ UNCHANGED dorig
    /\ UNCHANGED <<pipeVars, last, chainVars, classVars, juxtVars>>
    /\ UNCHANGED <<iterVars, csvVars>>

UpdateKey(key, value_function) ==
    /\ dpc = "run"
    /\ Len(dops) < MaxDictOps
    /\ LET out == update_key(key, value_function, heap, dref)
       IN  /\ heap' = out.heap
           /\ dref' = out.ref
           /\ dpc' = IF out.exc = "" THEN "run" ELSE "raised"
           /\ dops' = Append(dops, [fn |-> "update_key", key |-> key,
                                    vf |-> value_function, val |-> NoValue,
                                    in |-> dref, snap |-> heap[dref],
                                    out |-> out.ref, exc |-> out.exc])
    /\ UNCHANGED dorig
    /\ UNCHANGED <<pipeVars, last, chainVars, classVars, juxtVars>>
    /\ UNCHANGED <<iterVars, csvVars>>

SetKey(key, val) ==
    /\ dpc = "run"
    /\ Len(dops) < MaxDictOps
    /\ LET out == set_key(key, val, heap, dref)
       IN  /\ heap' = out.heap
           /\ dref' = out.ref
           /\ dops' = Append(dops, [fn |-> "set_key", key |-> key,
                                    vf |-> "", val |-> val,
                                    in |-> dref, snap |-> heap[dref],
                                    out |-> out.ref, exc |-> out.exc])
    /\ UNCHANGED <<dpc, dorig>>
    /\ UNCHANGED <<pipeVars, last, chainVars, classVars, juxtVars>>
    /\ UNCHANGED <<iterVars, csvVars>>

DropKey(key) ==
    /\ dpc = "run"
    /\ Len(dops) < MaxDictOps
    /\ LET out == drop_key(key, heap, dref)
       IN  /\ heap' = out.heap
           /\ dref' = out.ref
           /\ dops' = Append(dops, [fn |-> "drop_key", key |-> key,
                                    vf |-> "", val |-> NoValue,
                                    in |-> dref, snap |-> heap[dref],
                                    out |-> out.ref, exc |-> out.exc])
    /\ UNCHANGED <<dpc, dorig>>
    /\ UNCHANGED <<pipeVars, last, chainVars, classVars, juxtVars>>
    /\ UNCHANGED <<iterVars, csvVars>>

----------------------------------------------------------------------------
(* CSV writers                                                             *)
(*                                                                         *)
(* CSV text is the sequence of its lines, a line the sequence of its       *)
(* cells, a cell a string.  A row is a dict (a function from CsvKeys,      *)
(* NoValue for a missing key) or a tuple; columns is None, a list of       *)
(* names, or a dict given by its items (from, to) in order.                *)

CsvKeys == {"a", "b"}
KeyOrder == <<"a", "b">>
CsvInts == {PyInt(1), PyInt(2)}
Paths == {"out.csv"}

DictRow(m) == [t |-> "dict", v |-> m]
TupleRow(s) == [t |-> "tuple", v |-> s]
ListOf(s) == [t |-> "list", v |-> s]
DictOf(its) == [t |-> "dict", v |-> its]
Text(lines) == [t |-> "text", v |-> lines]

\* str(value), as the csv writer formats a cell
Digits == <<"0", "1", "2", "3", "4", "5", "6", "7", "8", "9">>
str_of(v) == Digits[v.v + 1]

is_dict(x) == x.t = "dict"

RowKeys(r) == {k \in CsvKeys : r.v[k] # NoValue}

\* sorted(keys)
Sorted(S) == SelectSeq(KeyOrder, LAMBDA k : k \in S)

Line(cells) == [exc |-> "", line |-> cells]
RowError(e) == [exc |-> e, line |-> <<>>]

\* row dicts renamed through the columns dict: r[from_c] for every item
RenamedRow(r, its) ==
    IF \E i \in DOMAIN its : its[i][1] \notin RowKeys(r) THEN RowError("KeyError")
    ELSE Line([i \in DOMAIN its |-> str_of(r.v[its[i][1]])])

\* row dicts written as they are; DictWriter leaves a missing cell empty
PlainDictRow(r, names) ==
    Line([i \in DOMAIN names |->
             IF names[i] \in RowKeys(r) THEN str_of(r.v[names[i]]) ELSE ""])

\* row dicts cut down to the given columns: r[c] for every column
SelectedRow(r, names) ==
    IF \E i \in DOMAIN names : names[i] \notin RowKeys(r) THEN RowError("KeyError")
    ELSE Line([i \in DOMAIN names |-> str_of(r.v[names[i]])])

\* row sequences keyed by position: r[i] for every column
KeyedRow(r, names) ==
    IF Len(names) > Len(r.v) THEN RowError("IndexError")
    ELSE Line([i \in DOMAIN names |-> str_of(r.v[i])])

\* row sequences handed to csv.writer
PlainRow(r) == Line([i \in DOMAIN r.v |-> str_of(r.v[i])])

\* writerows consumes the mapped rows one at a time
RECURSIVE writerows(_, _)
writerows(w, mapped) ==
    IF mapped = <<>> THEN [exc |-> "", wfp |-> w]
    ELSE IF Head(mapped).exc # "" THEN [exc |-> Head(mapped).exc, wfp |-> w]
    ELSE writerows(Append(w, Head(mapped).line), Tail(mapped))

csv_rows_to_fp(w, rows, header, columns) ==
    IF rows = <<>> THEN [exc |-> "StopIteration", wfp |-> w]
    ELSE
    LET first_row == rows[1]
        rows_are_dicts == is_dict(first_row)
        columns_is_dict == is_dict(columns)
        names ==
            CASE rows_are_dicts /\ columns_is_dict ->
                    [i \in DOMAIN columns.v |-> columns.v[i][2]]
              [] rows_are_dicts /\ columns = None ->
                    Sorted(UNION {RowKeys(rows[i]) : i \in DOMAIN rows})
              [] ~ rows_are_dicts /\ columns_is_dict ->
                    [i \in DOMAIN columns.v |-> columns.v[i][1]]
              [] columns = None -> <<>>
              [] OTHER -> columns.v
        mapped ==
            [i \in DOMAIN rows |->
                CASE rows_are_dicts /\ columns_is_dict -> RenamedRow(rows[i], columns.v)
                  [] rows_are_dicts /\ columns = None -> PlainDictRow(rows[i], names)
                  [] rows_are_dicts -> SelectedRow(rows[i], names)
                  [] columns # None -> KeyedRow(rows[i], names)
                  [] OTHER -> PlainRow(rows[i])]
        writeheader == header /\ (rows_are_dicts \/ columns # None)
    IN  writerows(IF writeheader THEN Append(w, names) ELSE w, mapped)

\* the body of csv_rows_to_path is its docstring: it returns None
csv_rows_to_path(fs, path, rows, header, columns) ==
    [exc |-> "", ret |-> None, files |-> fs]

\* the body of csv_rows_to_content is its docstring: it returns None
csv_rows_to_content(rows, header, columns) ==
    [exc |-> "", ret |-> None]

DictRows == {DictRow(m) : m \in [CsvKeys -> CsvInts \cup {NoValue}]}
TupleRows == {TupleRow(s) : s \in SeqsUpTo(CsvInts, MaxRows) \ {<<>>}}
RowInputs == SeqsUpTo(DictRows, MaxRows) \cup SeqsUpTo(TupleRows, MaxRows)
ColumnInputs ==
    {None, ListOf(<<"a", "b">>), ListOf(<<"b">>),
     DictOf(<<(<<"b", "B">>), (<<"a", "A">>)>>)}

CallCsvRowsToFp(rows, header, columns) ==
    /\ LET out == csv_rows_to_fp(wfp, rows, header, columns)
       IN  /\ wfp' = out.wfp
           /\ csv' = [fn |-> "csv_rows_to_fp", path |-> "", rows |-> rows,
                      header |-> header, columns |-> columns,
                      ret |-> IF out.exc = "" THEN None ELSE NoValue,
                      exc |-> out.exc]
    /\ UNCHANGED files
    /\ UNCHANGED <<pipeVars, last, chainVars, classVars, juxtVars>>
    /\ UNCHANGED <<iterVars, dictVars>>

CallCsvRowsToPath(path, rows, header, columns) ==
    /\ LET out == csv_rows_to_path(files, path, rows, header, columns)
       IN  /\ files' = out.files
           /\ csv' = [fn |-> "csv_rows_to_path", path |-> path, rows |-> rows,
                      header |-> header, columns |-> columns,
                      ret |-> out.ret, exc |-> out.exc]
    /\ UNCHANGED wfp
    /\ UNCHANGED <<pipeVars, last, chainVars, classVars, juxtVars>>
    /\ UNCHANGED <<iterVars, dictVars>>

CallCsvRowsToContent(rows, header, columns) ==
    /\ LET out == csv_rows_to_content(rows, header, columns)
       IN  csv' = [fn |-> "csv_rows_to_content", path |-> "", rows |-> rows,
                   header |-> header, columns |-> columns,
                   ret |-> out.ret, exc |-> out.exc]
    /\ UNCHANGED <<wfp, files>>
    /\ UNCHANGED <<pipeVars, last, chainVars, classVars, juxtVars>>
    /\ UNCHANGED <<iterVars, dictVars>>

----------------------------------------------------------------------------
(* Construction of _null objects *)

NullObject(n) == [t |-> "Null", v |-> n]

null_new_AlwaysFresh(inst, n) == NullObject(n)

null_new(inst, n) == IF inst = None THEN NullObject(n) ELSE inst

Construct ==
    /\ Len(constructed) < MaxConstruct
    /\ _instance' = null_new(_instance, Len(constructed) + 1)
    /\ constructed' = Append(constructed, _instance')
    /\ UNCHANGED <<pipeVars, last, chainVars, juxtVars>>
    /\ UNCHANGED <<iterVars, dictVars, csvVars>>

----------------------------------------------------------------------------
(* Specification *)

Init ==
    /\ pc = [c \in Calls |-> "idle"]
    /\ arg = [c \in Calls |-> NoValue]
    /\ value = [c \in Calls |-> NoValue]
    /\ functions = [c \in Calls |-> <<>>]
    /\ default = [c \in Calls |-> None]
    /\ idx = [c \in Calls |-> 1]
    /\ calls = [c \in Calls |-> <<>>]
    /\ outs = [c \in Calls |-> <<>>]
    /\ result = [c \in Calls |-> NoValue]
    /\ log = <<>>
    /\ last = [fn |-> "none", val |-> NoValue, dflt |-> None, ret |-> NoValue, exc |-> ""]
    /\ chainPc = "idle"
    /\ acc = NoValue
    /\ chainOps = <<>>
    /\ nullDict = [a \in AttrNames |-> NoValue]
    /\ _instance = Null
    /\ constructed = <<>>
    /\ jpc = "idle"
    /\ jfuncs = <<>>
    /\ jarg = NoValue
    /\ jidx = 1
    /\ sc = FALSE
    /\ yielded = <<>>
    /\ jcalls = <<>>
    /\ itPc = "idle"
    /\ itObj = NoValue
    /\ itMode = ""
    /\ itIdx = 0
    /\ items = <<>>
    /\ dpc = "idle"
    /\ heap = <<>>
    /\ dref = 0
    /\ dorig = [k \in DictKeys |-> NoValue]
    /\ dops = <<>>
    /\ csv = [fn |-> "none", path |-> "", rows |-> <<>>, header |-> TRUE,
              columns |-> None, ret |-> NoValue, exc |-> ""]
    /\ wfp = <<>>
    /\ files = [p \in Paths |-> NoValue]

Quiescent ==
    /\ \A c \in Calls : pc[c] = "idle"
    /\ last.fn = "none"
    /\ chainPc = "idle"
    /\ constructed = <<>>
    /\ jpc = "idle"
    /\ itPc = "idle"
    /\ dpc = "idle"
    /\ csv.fn = "none"

\* One operation at a time: an operation starts when nothing has run yet.
\* A sequential maybe_pipe call runs as call 1; call 2 runs in SpecConc.
Next ==
    \/ Quiescent /\ \E v \in Values, fs \in StageLists, d \in Values :
           CallMaybePipe(1, v, fs, d)
    \/ \E c \in Calls : CheckValue(c)
    \/ \E c \in Calls : Iterate(c)
    \/ \E c \in Calls : ReturnValue(c)
    \/ Quiescent /\ \E v \in Values, d \in Values : CallMaybe(v, d)
    \/ Quiescent /\ \E v \in Values : CallIsNull(v)
    \/ Quiescent /\ \E v \in Values : CallNotNull(v)
    \/ Quiescent /\ \E v \in Values : CallMaybeTwiceEq(v)
    \/ Quiescent /\ \E v \in Values : CallMaybeTwiceIs(v)
    \/ Quiescent /\ \E op \in CompareOps, a \in Values, b \in Values : CompareOp(op, a, b)
    \/ Quiescent /\ \E op \in ArithOps, a \in Values, b \in Values : ArithOp(op, a, b)
    \/ Quiescent /\ \E v \in Values : ChainStart(v)
    \/ (Quiescent \/ constructed # <<>>) /\ Construct
    \/ Quiescent /\ \E v \in ConvValues, d \in ConvValues : CallMaybeInt(v, d)
    \/ Quiescent /\ \E v \in ConvValues, d \in ConvValues : CallMaybeFloat(v, d)
    \/ Quiescent /\ \E fs \in StageLists, a \in Values : CallJuxt(fs, a)
    \/ JuxtIterate
    \/ JuxtExhausted
    \/ \E key \in AttrNames : GetAttrOp(key)
    \/ \E key \in Keys : GetItemOp(key)
    \/ \E a \in {<<>>, <<PyInt(1)>>} : CallOp(a)
    \/ \E key \in SetNames, val \in SetValues : SetAttrOp(key, val)
    \/ BoolOp
    \/ LenOp
    \/ \E x \in Values : ContainsOp(x)
    \/ Quiescent /\ \E obj \in Iterables, mode \in IterModes : IterStart(obj, mode)
    \/ IterStep
    \/ Quiescent /\ \E d0 \in Dicts : DictStart(d0)
    \/ \E key \in DictKeys, vf \in ValueFunctions : CreateKey(key, vf)
    \/ \E key \in DictKeys, vf \in ValueFunctions : UpdateKey(key, vf)
    \/ \E key \in DictKeys, val \in DictVals : SetKey(key, val)
    \/ \E key \in DictKeys : DropKey(key)
    \/ Quiescent /\ \E rows \in RowInputs, header \in BOOLEAN, columns \in ColumnInputs :
           CallCsvRowsToFp(rows, header, columns)
    \/ Quiescent /\ \E path \in Paths, rows \in RowInputs, header \in BOOLEAN,
                      columns \in ColumnInputs :
           CallCsvRowsToPath(path, rows, header, columns)
    \/ Quiescent /\ \E rows \in RowInputs, header \in BOOLEAN, columns \in ColumnInputs :
           CallCsvRowsToContent(rows, header, columns)

Spec == Init /\ [][Next]_vars

----------------------------------------------------------------------------
(* Two invocations of maybe_pipe running concurrently: their steps         *)
(* interleave freely.                                                      *)

ConcStageNames == {"inc", "dbl", "none", "error"}
ConcStageLists == SeqsUpTo(ConcStageNames, MaxConcStages)
ConcValues == {None, PyInt(1)}
ConcDefaults == {None, PyInt(5)}

NextConc ==
    \/ \E c \in Calls, v \in ConcValues, fs \in ConcStageLists, d \in ConcDefaults :
           CallMaybePipe(c, v, fs, d)
    \/ \E c \in Calls : CheckValue(c)
    \/ \E c \in Calls : Iterate(c)
    \/ \E c \in Calls : ReturnValue(c)

SpecConc == Init /\ [][NextConc]_vars

----------------------------------------------------------------------------
(* Properties of maybe_pipe *)

NotInvokedAfter(c, i) == \A m \in DOMAIN calls[c] : m > i => calls[c][m] = 0

DefaultOrNull(c) == IF default[c] = None THEN Null ELSE default[c]

C2_AbsentShortCircuits ==
    \A c \in Calls : \A j \in DOMAIN outs[c] :
        (~ is_null(arg[c]) /\ outs[c][j].k = "ret" /\ outs[c][j].val \in {None, Null})
            => /\ pc[c] = "returned"
               /\ result[c] = DefaultOrNull(c)
               /\ result[c] = ExceptReturn(c)
               /\ NotInvokedAfter(c, outs[c][j].i)

C2_Witness ==
    \E c \in Calls :
        /\ pc[c] = "returned"
        /\ arg[c] = PyInt(1)
        /\ functions[c] = <<"dbl", "none", "inc">>
        /\ default[c] = PyInt(7)
        /\ result[c] = PyInt(7)
        /\ calls[c] = <<1, 1, 0>>

\* C3 as stated: no call of maybe_pipe ever ends by propagating an exception
\* of a stage, whatever the stage raised.
C3_NeverPropagates == \A c \in Calls : pc[c] # "raised"

\* C3 amended: a call that has not ended can always take its next step; an
\* exception derived from Exception is never propagated (the call returns a
\* result); the only exceptions that leave maybe_pipe are those that derive
\* from BaseException alone.
C3_PropagatesOnlyBaseException ==
    \A c \in Calls :
        /\ pc[c] \in {"check", "loop"}
               => ENABLED (CheckValue(c) \/ Iterate(c) \/ ReturnValue(c))
        /\ \A j \in DOMAIN outs[c] :
               (outs[c][j].k = "raise" /\ outs[c][j].exc \in ExceptionSubclasses)
                   => pc[c] = "returned" /\ result[c] # NoValue
        /\ pc[c] = "raised"
               => /\ outs[c] # <<>>
                  /\ outs[c][Len(outs[c])].k = "raise"
                  /\ outs[c][Len(outs[c])].exc \in BaseExceptionOnly

C3_Witness ==
    \E c \in Calls :
        /\ pc[c] = "returned"
        /\ arg[c] = EmptyStr
        /\ functions[c] = <<"dbl", "inc">>
        /\ outs[c][2].exc = "TypeError"
        /\ result[c] = Null

RECURSIVE AllPass(_, _)
AllPass(fs, v) ==
    IF fs = <<>> THEN TRUE
    ELSE LET o == Apply(Head(fs), v)
         IN  o.k = "ret" /\ ~ (o.val \in {None, Null}) /\ AllPass(Tail(fs), o.val)

RECURSIVE Composed(_, _)
Composed(fs, v) ==
    IF fs = <<>> THEN v ELSE Composed(Tail(fs), Apply(Head(fs), v).val)

\* C4: for a non-absent value and stages none of which raises or returns
\* None or Null, the call returns fn(...f2(f1(v))...): every stage is invoked
\* exactly once, in order, on the previous stage's output, whatever the
\* default; with no stages the result is the value itself.
C4_ReturnsComposition ==
    \A c \in Calls :
        (pc[c] = "returned" /\ ~ (arg[c] \in {None, Null}) /\ AllPass(functions[c], arg[c]))
            => /\ result[c] = Composed(functions[c], arg[c])
               /\ Len(outs[c]) = Len(functions[c])
               /\ \A i \in DOMAIN functions[c] :
                      /\ calls[c][i] = 1
                      /\ outs[c][i].i = i
                      /\ outs[c][i].on = IF i = 1 THEN arg[c] ELSE outs[c][i - 1].val

C4_Witness ==
    \E c \in Calls :
        /\ pc[c] = "returned"
        /\ arg[c] = PyInt(10)
        /\ functions[c] = <<"inc", "dbl">>
        /\ default[c] = PyInt(5)
        /\ result[c] = PyInt(22)

\* C5: when the initial value is None or Null and no default is given, the
\* call returns Null and never invokes a stage.
C5_AbsentInitialReturnsNull ==
    \A c \in Calls :
        (pc[c] # "idle" /\ arg[c] \in {None, Null} /\ default[c] = None)
            => /\ pc[c] \in {"check", "returned"}
               /\ pc[c] = "returned" => result[c] = Null
               /\ \A i \in DOMAIN calls[c] : calls[c][i] = 0

C5_Witness ==
    \E c \in Calls :
        /\ pc[c] = "returned"
        /\ arg[c] = None
        /\ default[c] = None
        /\ functions[c] = <<"inc", "dbl", "error">>
        /\ result[c] = Null
        /\ calls[c] = <<0, 0, 0>>

\* C6: when the initial value is None or Null and the caller supplies a
\* non-null default, the call returns that default.
C6_AbsentInitialReturnsDefault ==
    \A c \in Calls :
        (pc[c] = "returned" /\ arg[c] \in {None, Null} /\ ~ (default[c] \in {None, Null}))
            => result[c] = default[c]

\* C10: a finished call returned the output of the final stage after every
\* stage ran (the initial value when there are no stages), or Null, or the
\* caller's default; never the output of a stage that was not the last; and
\* no stage is invoked more than once.
C10_ResultIsFinalNullOrDefault ==
    \A c \in Calls :
        /\ \A i \in DOMAIN calls[c] : calls[c][i] <= 1
        /\ pc[c] = "returned"
               => \/ /\ Len(outs[c]) = Len(functions[c])
                     /\ \A j \in DOMAIN outs[c] : outs[c][j].i = j /\ outs[c][j].k = "ret"
                     /\ result[c] = IF functions[c] = <<>> THEN arg[c]
                                    ELSE outs[c][Len(outs[c])].val
                  \/ result[c] = Null
                  \/ default[c] # None /\ result[c] = default[c]

C10_Witness ==
    \E c \in Calls :
        /\ pc[c] = "returned"
        /\ arg[c] = PyInt(1)
        /\ functions[c] = <<"inc", "dbl", "error">>
        /\ outs[c][2].val = PyInt(4)
        /\ default[c] = PyInt(7)
        /\ result[c] = PyInt(7)
        /\ calls[c] = <<1, 1, 1>>

----------------------------------------------------------------------------
(* Properties of maybe, is_null, not_null *)

\* C7: maybe(value, default) is default when value is None or Null and default
\* is non-null, Null when value is None or Null and default is not non-null,
\* and value itself for every other value, falsy ones included.
C7_MaybeContract ==
    last.fn = "maybe"
        => last.ret = IF last.val \in {None, Null}
                      THEN IF last.dflt \in {None, Null} THEN Null ELSE last.dflt
                      ELSE last.val

C7_Witness ==
    /\ last.fn = "maybe"
    /\ last.val = PyInt(0)
    /\ last.dflt = PyInt(5)
    /\ last.ret = PyInt(0)

\* C8: is_null(v) is true exactly when v is Null or None, false for every
\* other value (0, False and the empty string included), and not_null(v) is
\* its negation.
C8_IsNullExactlyNoneOrNull ==
    /\ last.fn = "is_null" => last.ret = PyBool(last.val \in {None, Null})
    /\ last.fn = "not_null" => last.ret = PyBool(~ (last.val \in {None, Null}))

C8_Witness ==
    /\ last.fn = "is_null"
    /\ last.val = EmptyStr
    /\ last.ret = False

----------------------------------------------------------------------------
(* Properties of the Null object *)

ChainFromAbsent ==
    /\ chainPc = "run"
    /\ chainOps[1].name \in {"None", "Null"}

\* C9 as stated: every attribute access, indexing and call on Null returns
\* Null, so a chain of them that starts from maybe(absent value) holds Null.
C9_EveryAccessReturnsNull ==
    (ChainFromAbsent
        /\ \A n \in DOMAIN chainOps : chainOps[n].op \in {"maybe", "getattr", "getitem", "call"})
        => acc = Null

\* C9 amended: every indexing and every call on Null returns Null, and so does
\* every attribute access that reaches __getattr__ (the name is not assigned
\* on the instance and not defined by the class) with a name other than
\* '__wrapped__'; a chain of such operations from maybe(absent value) holds Null.
C9_AccessReturnsNullExceptWrapped ==
    (ChainFromAbsent
        /\ \A n \in DOMAIN chainOps :
               /\ chainOps[n].op \in {"maybe", "getattr", "getitem", "call", "setattr"}
               /\ chainOps[n].op = "getattr"
                      => chainOps[n].via = "__getattr__" /\ chainOps[n].name # "__wrapped__")
        => acc = Null

C9_Witness ==
    /\ ChainFromAbsent
    /\ Len(chainOps) = 4
    /\ chainOps[2].op = "getattr" /\ chainOps[2].name = "foo"
    /\ chainOps[3].op = "getitem"
    /\ chainOps[4].op = "call"
    /\ acc = Null

----------------------------------------------------------------------------
(* Diagnostics of maybe_pipe *)

Logged(c) == \E n \in DOMAIN log : log[n].call = c

ShortCircuited(c) ==
    /\ pc[c] = "returned"
    /\ outs[c] # <<>>
    /\ LET o == outs[c][Len(outs[c])]
       IN  o.k = "raise" \/ (o.k = "ret" /\ o.val \in {None, Null})

\* C11 as stated: every short-circuit of maybe_pipe, by a raised exception or
\* by a stage that returned None or Null, has handed an error record to the
\* log when the call has returned.
C11_EveryShortCircuitLogs == \A c \in Calls : ShortCircuited(c) => Logged(c)

\* C11 amended: a short-circuit caused by a stage raising an exception has
\* handed exactly one error record to the log when the call has returned; a
\* short-circuit caused by a stage returning None or Null logs nothing.
C11_OnlyExceptionShortCircuitLogs ==
    \A c \in Calls :
        /\ Cardinality({n \in DOMAIN log : log[n].call = c}) <= 1
        /\ pc[c] = "returned"
               => (Logged(c) <=> (outs[c] # <<>> /\ outs[c][Len(outs[c])].k = "raise"))
        /\ \A n \in DOMAIN log :
               log[n].call = c => outs[c][Len(outs[c])].i = log[n].stage

C11_Witness ==
    \E c \in Calls :
        /\ pc[c] = "returned"
        /\ arg[c] = PyInt(10)
        /\ functions[c] = <<"inc", "error", "dbl">>
        /\ result[c] = Null
        /\ log = <<[call |-> c, stage |-> 2]>>

----------------------------------------------------------------------------
(* Operators on Null *)

\* C12 as stated: for every value v, absent or not,
\* maybe(maybe(v)) == maybe(v) evaluates to true.
C12_MaybeIdempotentUnderEq ==
    last.fn = "maybe(maybe(v)) == maybe(v)" => last.ret = True

\* C12 amended: maybe(maybe(v)) is the same object as maybe(v) for every v;
\* maybe(maybe(v)) == maybe(v) evaluates to true for every non-absent v (whose
\* own equality is reflexive) and to false for None and Null, because the
\* comparison is then Null == Null.
C12_MaybeIdempotentByIdentity ==
    /\ last.fn = "maybe(maybe(v)) is maybe(v)" => last.ret = True
    /\ last.fn = "maybe(maybe(v)) == maybe(v)"
           => last.ret = PyBool(~ (last.val \in {None, Null}))

C12_Witness ==
    /\ last.fn = "maybe(maybe(v)) == maybe(v)"
    /\ last.val = None
    /\ last.ret = False

\* C13: each of +, -, * and / with Null as the left or as the right operand
\* returns Null and does not raise.
C13_ArithmeticReturnsNull ==
    last.fn \in ArithOps => last.exc = "" /\ last.ret = Null

\* C14: each of <, >, <=, >= and == between Null and any value, Null and None
\* included, with Null on either side, evaluates to false.
C14_ComparisonsAreFalse ==
    (last.fn \in CompareOps /\ (last.val = Null \/ last.dflt = Null))
        => last.exc = "" /\ last.ret = False

C14_Witness ==
    /\ last.fn = "=="
    /\ last.val = Null
    /\ last.dflt = Null
    /\ last.ret = False

----------------------------------------------------------------------------
(* The Null singleton *)

\* C15: after any number of constructions of _null, every constructed object
\* is the module-level Null, and it is the only instance the class holds.
C15_SingleInstance ==
    /\ _instance = Null
    /\ \A n \in DOMAIN constructed : constructed[n] = Null

C15_Witness ==
    /\ Len(constructed) >= 2
    /\ constructed[1] = Null
    /\ constructed[2] = Null

LastChainOp == chainOps[Len(chainOps)]

\* C16: no sequence of operations on Null (attribute reads, attribute
\* assignments, indexing, calls) changes its state: its instance dictionary
\* stays as it was at import, and every attribute that read as Null then
\* still reads as Null.
C16_NullNeverMutated ==
    /\ \A key \in AttrNames : nullDict[key] = NoValue
    /\ \A key \in AttrNames :
           null_getattr(key) = Null /\ ~ (key \in ClassAttrs)
               => GetAttribute(nullDict, key) = Null

\* C17: the boolean coercion of Null is false, its length is 0 and a
\* membership test of any value in Null is false, whatever was done to Null
\* before.
C17_ObserversAreConstant ==
    (chainPc = "run" /\ Len(chainOps) >= 2)
        => /\ LastChainOp.op = "bool" => acc = False
           /\ LastChainOp.op = "len" => acc = PyInt(0)
           /\ LastChainOp.op = "in" => acc = False

C17_Witness ==
    /\ chainPc = "run"
    /\ Len(chainOps) = 3
    /\ chainOps[2].op = "setattr" /\ chainOps[2].name = "__len__"
    /\ nullDict["__len__"] = PyInt(1)
    /\ chainOps[3].op = "len"
    /\ acc = PyInt(0)

----------------------------------------------------------------------------
(* sc_juxt, maybe_int, maybe_float *)

JuxtOutput(i) == Apply(jfuncs[i], jarg)

FirstFalsy ==
    LET falsy == {i \in DOMAIN jfuncs : ~ Truthy(JuxtOutput(i).val)}
    IN  IF falsy = {} THEN Len(jfuncs) + 1
        ELSE CHOOSE i \in falsy : \A m \in falsy : i <= m

\* C19: the caller of sc_juxt(f1..fn) yields exactly one item per function,
\* fi's output before the first function whose output is falsy and Null for
\* that function and every function after it, and calls no function after
\* the first falsy one.
C19_OneItemPerFunction ==
    jpc = "done"
        => /\ Len(yielded) = Len(jfuncs)
           /\ \A i \in DOMAIN jfuncs :
                  /\ yielded[i] = IF i < FirstFalsy THEN JuxtOutput(i).val ELSE Null
                  /\ jcalls[i] = IF i <= FirstFalsy THEN 1 ELSE 0

ConvertsTo(fn, v) == IF fn = "maybe_int" THEN int_of(v) ELSE float_of(v)

\* C20: maybe_int(value, default) is int(value) when value converts;
\* otherwise it is default whenever default is neither None nor Null (0
\* included), and Null only then; maybe_float likewise with float.
C20_NonNullDefaultReturned ==
    last.fn \in {"maybe_int", "maybe_float"}
        => last.ret = IF ConvertsTo(last.fn, last.val).exc = ""
                      THEN ConvertsTo(last.fn, last.val).val
                      ELSE IF last.dflt \in {None, Null} THEN Null ELSE last.dflt

----------------------------------------------------------------------------
(* Independence of concurrent invocations *)

RECURSIVE PipeFrom(_, _, _)
PipeFrom(cur, fs, d) ==
    IF fs = <<>> THEN cur
    ELSE LET o == Apply(Head(fs), cur)
         IN  IF o.k = "raise" \/ o.val \in {None, Null}
             THEN IF d = None THEN Null ELSE d
             ELSE PipeFrom(o.val, Tail(fs), d)

RunAlone(v, fs, d) == IF v \in {None, Null} THEN Null ELSE PipeFrom(v, fs, d)

\* A call that runs with no other call in progress returns RunAlone (checked
\* under Spec, where calls never overlap).
AloneResult ==
    \A c \in Calls :
        pc[c] = "returned" => result[c] = RunAlone(arg[c], functions[c], default[c])

\* C18: when two invocations of maybe_pipe with side-effect-free stages run
\* concurrently, under every interleaving of their steps each returns the
\* result it returns when run alone, and the Null object is never written.
C18_ConcurrentCallsIndependent ==
    /\ \A c \in Calls :
           pc[c] = "returned" => result[c] = RunAlone(arg[c], functions[c], default[c])
    /\ \A key \in AttrNames : nullDict[key] = NoValue
    /\ _instance = Null

C18_Witness ==
    /\ pc[1] = "returned"
    /\ arg[1] = PyInt(1) /\ functions[1] = <<"inc", "dbl">> /\ result[1] = PyInt(4)
    /\ pc[2] = "loop" /\ idx[2] = 2
    /\ arg[2] = PyInt(1) /\ functions[2] = <<"dbl", "inc">> /\ default[2] = PyInt(5)
    /\ value[2] = PyInt(2)

----------------------------------------------------------------------------
(* Falsy values against null values *)

FalsyNotNull == {PyInt(0), False, EmptyStr, EmptyList}

\* C21: maybe and maybe_pipe stop only on None and Null.  A stage that
\* returns a falsy value other than these (0, False, the empty string, the
\* empty list) does not stop maybe_pipe: the value is the input of the next
\* stage, or the result when the stage was the last one, and maybe returns
\* such a value as it is.  A stage short_circuit(function) returns Null
\* when function(value) is falsy and value itself otherwise.
C21_OnlyNullShortCircuits ==
    /\ \A c \in Calls : \A j \in DOMAIN outs[c] :
          LET o == outs[c][j]
          IN  /\ (o.k = "ret" /\ o.val \notin {None, Null}) =>
                    IF j < Len(outs[c])
                    THEN outs[c][j + 1].on = o.val /\ outs[c][j + 1].i = j + 1
                    ELSE /\ value[c] = o.val
                         /\ pc[c] \in {"loop", "returned"}
                         /\ pc[c] = "loop" => idx[c] = j + 1
                         /\ pc[c] = "returned" =>
                               result[c] = o.val /\ j = Len(functions[c])
              /\ (functions[c][o.i] = "sc_dbl" /\ o.k = "ret") =>
                    o.val = IF Plain("dbl", o.on).val \in FalsyNotNull \cup {None, Null}
                            THEN Null ELSE o.on
    /\ (last.fn = "maybe" /\ last.val \in FalsyNotNull) => last.ret = last.val

\* a falsy list goes through a plain stage into short_circuit, which turns it
\* into Null
C21_Witness ==
    \E c \in Calls :
        /\ pc[c] = "returned"
        /\ functions[c] = <<"dbl", "sc_dbl">>
        /\ Len(outs[c]) = 2
        /\ outs[c][1].val \in FalsyNotNull
        /\ outs[c][2].on = outs[c][1].val
        /\ outs[c][2].val = Null
        /\ result[c] = Null

----------------------------------------------------------------------------
(* Iteration over Null *)

\* C22: an iteration over Null (a for loop or a map, through iter(Null), or
\* repeated next(Null)) never ends: the end of the iteration is never
\* signalled, every item produced is Null, and another step is always
\* possible (up to the number of steps explored).
C22_IterationOverNullNeverEnds ==
    (itPc # "idle" /\ itObj = Null) =>
        /\ itPc = "run"
        /\ \A i \in DOMAIN items : items[i] = Null
        /\ itMode = "iter" => itIdx = Len(items)
        /\ Len(items) < MaxIter => ENABLED IterStep

C22_Witness ==
    /\ itObj = Null
    /\ itMode = "iter"
    /\ itPc = "run"
    /\ Len(items) = MaxIter
    /\ items[MaxIter] = Null

----------------------------------------------------------------------------
(* Dictionary transformers and their input *)

\* C23: create_key, update_key, set_key and drop_key do not write into
\* their input: after any sequence of them the dict the caller passed holds
\* what it held before, and so does the input of every single transformer.
\* create_key returns the contents of its input when the key is present and
\* the input plus key -> value_function(input) when it is missing;
\* update_key returns the input with key -> value_function(input) always.
C23_TransformersLeaveInputAlone ==
    dpc # "idle" =>
        /\ heap[1] = dorig
        /\ \A n \in DOMAIN dops :
              LET o == dops[n]
                  set == [o.snap EXCEPT ![o.key] = ValueOf(o.vf, o.snap).val]
              IN  /\ heap[o.in] = o.snap
                  /\ (o.fn = "create_key" /\ o.exc = "") =>
                        heap[o.out] = IF o.snap[o.key] # NoValue THEN o.snap ELSE set
                  /\ (o.fn = "update_key" /\ o.exc = "") => heap[o.out] = set

C23_Witness ==
    /\ Len(dops) = 2
    /\ dops[1].fn = "create_key" /\ dops[1].snap[dops[1].key] = NoValue
    /\ dops[1].exc = ""
    /\ dops[2].fn = "update_key" /\ dops[2].snap[dops[2].key] # NoValue
    /\ dops[2].exc = ""
    /\ heap[dref] # dorig
    /\ heap[1] = dorig

----------------------------------------------------------------------------
(* CSV writers against csv_rows_to_fp *)

\* C24 as stated: csv_rows_to_content returns, and csv_rows_to_path leaves
\* in the file at path, exactly the text csv_rows_to_fp writes for the same
\* rows, header and columns.
C24_PathAndContentMatchFp ==
    LET expected == csv_rows_to_fp(<<>>, csv.rows, csv.header, csv.columns)
    IN  /\ (csv.fn = "csv_rows_to_content" /\ expected.exc = "") =>
              csv.ret = Text(expected.wfp)
        /\ (csv.fn = "csv_rows_to_path" /\ expected.exc = "") =>
              files[csv.path] = Text(expected.wfp)

----------------------------------------------------------------------------
(* None is never returned *)

\* C25: maybe and maybe_pipe never return None, whatever the value, the
\* stages and the default (None when omitted or passed); when the outcome is
\* absent (a null value, a stage that raised or returned a null value) the
\* result is Null or a default other than None.
C25_NeverReturnsNone ==
    /\ \A c \in Calls :
          /\ pc[c] = "returned" => result[c] # None
          /\ (ShortCircuited(c) \/ (pc[c] = "returned" /\ arg[c] \in {None, Null})) =>
                result[c] = Null \/ (result[c] = default[c] /\ default[c] # None)
    /\ last.fn = "maybe" =>
          /\ last.ret # None
          /\ last.val \in {None, Null} =>
                last.ret = Null \/ (last.ret = last.dflt /\ last.dflt # None)

\* a stage returns None, no default is given: the call returns Null
C25_Witness ==
    \E c \in Calls :
        /\ pc[c] = "returned"
        /\ default[c] = None
        /\ outs[c] # <<>>
        /\ outs[c][Len(outs[c])].k = "ret"
        /\ outs[c][Len(outs[c])].val = None
        /\ result[c] = Null

----------------------------------------------------------------------------
(* Termination of maybe_pipe *)

Ended(c) == pc[c] \in {"returned", "raised"}

Running(c) == pc[c] \in {"check", "loop"}

\* steps the call still has to take, at most
Measure(c) ==
    CASE pc[c] = "check" -> Len(functions[c]) + 2
      [] pc[c] = "loop" -> Len(functions[c]) + 2 - idx[c]
      [] OTHER -> 0

C26_BoundedPrefix ==
    \A c \in Calls :
        /\ Len(outs[c]) <= Len(functions[c])
        /\ \A j \in DOMAIN outs[c] : outs[c][j].i = j
        /\ \A j \in DOMAIN calls[c] : calls[c][j] = IF j <= Len(outs[c]) THEN 1 ELSE 0
        /\ \A j \in DOMAIN outs[c] :
              LET o == outs[c][j]
              IN  /\ (o.k = "ret" /\ o.val \in {None, Null}) =>
                        j = Len(outs[c]) /\ pc[c] = "returned"
                  /\ (o.k = "raise" /\ o.exc \in ExceptionSubclasses) =>
                        j = Len(outs[c]) /\ pc[c] = "returned"
                  /\ o.k = "raise" => j = Len(outs[c]) /\ Ended(c)
        /\ Running(c) => Measure(c) > 0
        /\ Running(c) => ENABLED (CheckValue(c) \/ Iterate(c) \/ ReturnValue(c))

C26_Progress ==
    \A c \in Calls :
        /\ Running(c) =>
              \/ Measure(c)' < Measure(c)
              \/ UNCHANGED <<pc[c], idx[c], outs[c]>>
        /\ Ended(c) => UNCHANGED <<pc[c], outs[c], calls[c], result[c]>>

\* C26: a maybe_pipe call over n stages ends when the stages it invokes
\* end: every step of the call lowers a measure bounded by n + 2 and a step
\* is possible until the call has ended; it invokes each stage at most once,
\* the invoked stages are the first ones of the list in order, at most n in
\* all, and the stage that raises or returns None or Null is the last one
\* invoked: the call has returned right after it (or, for an exception that
\* does not derive from Exception, has let it through).
C26_TerminatesWithinNStages == [] C26_BoundedPrefix /\ [][C26_Progress]_vars

\* three stages, the second returns None: two invocations and the call is over
C26_Witness ==
    \E c \in Calls :
        /\ pc[c] = "returned"
        /\ Len(functions[c]) = 3
        /\ Len(outs[c]) = 2
        /\ outs[c][2].val \in {None, Null}
        /\ calls[c] = <<1, 1, 0>>
        /\ idx[c] = 2

====
